---------------------------- MODULE Spec2Model ----------------------------
(***************************************************************************)
(* Model of the Metropolis engine of libmocasinns (metropolis.cpp).        *)
(*                                                                         *)
(* The engine drives an externally owned configuration through proposed    *)
(* steps, a random number generator, and user supplied accumulators.  The  *)
(* configuration, the step and the generator are template parameters of    *)
(* the engine; here they are a small level system (energy = level), steps  *)
(* of one level up or down with a selection probability factor, and a      *)
(* generator that hands out raw values.                                    *)
(*                                                                         *)
(* Real numbers that the acceptance test exponentiates are kept exactly,   *)
(* as zero or e^k for an integer k, so exp, log, product and comparison    *)
(* are computed without rounding.                                          *)
(***************************************************************************)
EXTENDS Integers, Sequences, FiniteSets, TLC

VARIABLES
  simulation_parameters,  \* Metropolis::Parameters
  configuration_space,    \* the externally owned configuration (its level)
  rng,                    \* position of the generator in its stream
  is_terminating,         \* Simulation::is_terminating
  signal_caught,          \* the process-wide POSIX signal flag
  api,                    \* which entry point is running
  betas,                  \* the inverse temperatures handed to the call
  beta_iterator,          \* index of the current beta (1-based)
  measurement_accumulator_iterator,  \* index of the current accumulator
  accumulators,           \* the caller's accumulators: the values each received
  internal_vector,        \* VectorAccumulator of do_metropolis_simulation(beta)
  results,                \* local `results` of the vector-of-vectors overload
  retval,                 \* what the call handed back to its caller
  beta,                   \* argument of the running single-beta call
  pc,                     \* position in the code
  ret,                    \* where do_metropolis_steps returns to
  num_steps,              \* argument of the running do_metropolis_steps
  i,                      \* loop index of do_metropolis_steps
  m,                      \* loop index of the measurement loop
  calls,                  \* history: single-beta calls started so far
  propose_calls,          \* history: propose_step calls of the running do_metropolis_steps
  signal_at,              \* history: where the call was when the signal arrived
  log,                    \* history: the events of the call
  iter,                   \* history: what the last loop iteration of do_metropolis_steps did
  maximal_time,           \* argument of autocorrelation_function
  simulation_time_factor, \* argument of autocorrelation_function
  observable_measurements,  \* local vector of autocorrelation_function
  i_measurement,          \* loop index i of the sampling loop of autocorrelation_function
  time,                   \* loop index of the loop over times
  measured_mean,          \* local measured_mean of autocorrelation_function
  sample_seeds_sum,       \* whether an accumulator_set built from a sample starts its sum with it
  out_of_range,           \* history: an element outside observable_measurements was read
  seed,                   \* the seed the generator was constructed with
  archive,                \* the text of the stream save_serialize wrote
  saved,                  \* history: parameters and generator at the time of the save
  twin_start,             \* history: the configuration the reloaded engine continues from
  wl_parameters,          \* WangLandau::Parameters
  density_of_states,      \* S: the log density of states, energy -> value
  incidence_counter,      \* H: the incidence histogram, energy -> count
  modification_factor_current,  \* ln_f
  energy_cur,             \* E_cur: the energy the engine tracks
  stage_steps,            \* history: single steps since the last reset of H, and those with an executable proposal
  stage_batches,          \* history: batches of sweep_steps steps completed at the current ln_f
  refinements,            \* history: refinements made so far
  last_check,             \* history: ln_f, H.flatness() and the batches at the last flatness check
  visited,                \* history: the energies the walk has been at after a step
  values,                 \* Histogram: HistoBase::values, key -> y
  binning,                \* Histogram::binning: width and reference
  ops                     \* history: the last operations called on the histogram, with their arguments

engineVars == <<simulation_parameters, configuration_space, rng, is_terminating, signal_caught>>
callVars == <<api, betas, beta_iterator, measurement_accumulator_iterator, accumulators, internal_vector, results, retval, beta>>
controlVars == <<pc, ret, num_steps, i, m>>
historyVars == <<calls, propose_calls, signal_at, log, iter>>

autoVars == <<maximal_time, simulation_time_factor, observable_measurements, i_measurement, time, measured_mean, sample_seeds_sum, out_of_range>>

serVars == <<seed, archive, saved, twin_start>>

wlVars == <<wl_parameters, density_of_states, incidence_counter, modification_factor_current, energy_cur, stage_steps, stage_batches, refinements, last_check, visited>>

histVars == <<values, binning, ops>>

vars == <<engineVars, callVars, controlVars, historyVars, autoVars, serVars, wlVars, histVars>>

----------------------------------------------------------------------------
(* Bounds of the model.                                                    *)

MaxRelax == 1
MaxMeas == 2
MaxBetween == 1
MaxBetas == 2
MaxPlanned == 10

(* Highest level of the configuration; levels are 0 .. MaxLevel.          *)
MaxLevel == 1

Levels == 0 .. MaxLevel
Betas == {0, 1}
RawValues == 0 .. 3
RngPeriod == 4

----------------------------------------------------------------------------
(* Exact positive reals: zero, or e^ln.                                    *)

RZero == [zero |-> TRUE, ln |-> 0]
RExp(k) == [zero |-> FALSE, ln |-> k]
RLog(r) == r.ln
RInv(r) == RExp(-r.ln)
RMul(a, b) == IF a.zero \/ b.zero THEN RZero ELSE RExp(a.ln + b.ln)
RLess(a, b) == IF b.zero THEN FALSE ELSE IF a.zero THEN TRUE ELSE a.ln < b.ln

----------------------------------------------------------------------------
(* The generator: each call consumes one raw value of the stream.          *)

rng_advance(g) == (g + 1) % RngPeriod

(* random_double: a value in [0,1): 0, e^-3, e^-2, e^-1.                   *)
random_double(raw) == IF raw = 0 THEN RZero ELSE RExp(raw - 4)

----------------------------------------------------------------------------
(* The configuration and its steps.                                        *)

(* propose_step: the raw value selects the direction and whether the       *)
(* proposal is symmetric (q = 1) or not (q = e for up, 1/e for down).      *)
propose_step(cfg, raw) ==
  LET dir == IF raw % 2 = 0 THEN -1 ELSE 1
      asym == raw \div 2
  IN [from |-> cfg, delta |-> dir, lnq |-> asym * dir]

is_executable(s) == (s.from + s.delta) \in Levels
delta_E(s) == s.delta
selection_probability_factor(s) == RExp(s.lnq)
execute(cfg, s) == cfg + s.delta

(* Observable::observe: the energy of the configuration.                   *)
observe(cfg) == cfg

----------------------------------------------------------------------------
(* do_metropolis_steps: the acceptance test and one loop iteration.        *)

(* accept_step with the second arm scaled by q instead of 1/q.             *)
accept_step_q(beta_times_delta_E, q, random_accept) ==
  \/ beta_times_delta_E <= -RLog(q)
  \/ RLess(random_accept, RMul(q, RExp(-beta_times_delta_E)))

accept_step(beta_times_delta_E, q, random_accept) ==
  \/ beta_times_delta_E <= -RLog(q)
  \/ RLess(random_accept, RMul(RInv(q), RExp(-beta_times_delta_E)))

(* metropolis_iteration with random_double called before the test of      *)
(* is_executable.                                                          *)
metropolis_iteration_drawfirst(cfg, g, beta_arg, rawStep, rawAccept) ==
  LET next_step == propose_step(cfg, rawStep)
      g2 == rng_advance(rng_advance(g))
      u == random_double(rawAccept)
      x == beta_arg * delta_E(next_step)
      acc == is_executable(next_step) /\ accept_step(x, selection_probability_factor(next_step), u)
  IN [config |-> IF acc THEN execute(cfg, next_step) ELSE cfg,
      rng |-> g2,
      did |-> [executable |-> is_executable(next_step), proposes |-> 1, draws |-> 1,
               executes |-> IF acc THEN 1 ELSE 0,
               x |-> x, delta |-> next_step.delta, lnq |-> next_step.lnq, u |-> u,
               before |-> cfg]]

(* One iteration: the new configuration and generator, and a record of    *)
(* what was called.  rawStep and rawAccept are the generator's next two    *)
(* outputs; the second is consumed only if random_double is called.        *)
metropolis_iteration(cfg, g, beta_arg, rawStep, rawAccept) ==
  LET next_step == propose_step(cfg, rawStep)
      g1 == rng_advance(g)
  IN IF is_executable(next_step)
     THEN LET x == beta_arg * delta_E(next_step)
              q == selection_probability_factor(next_step)
              u == random_double(rawAccept)
              g2 == rng_advance(g1)
              acc == accept_step(x, q, u)
          IN [config |-> IF acc THEN execute(cfg, next_step) ELSE cfg,
              rng |-> g2,
              did |-> [executable |-> TRUE, proposes |-> 1, draws |-> 1,
                       executes |-> IF acc THEN 1 ELSE 0,
                       x |-> x, delta |-> next_step.delta, lnq |-> next_step.lnq, u |-> u,
                       before |-> cfg]]
     ELSE [config |-> cfg,
           rng |-> g1,
           did |-> [executable |-> FALSE, proposes |-> 1, draws |-> 0,
                    executes |-> 0,
                    x |-> 0, delta |-> next_step.delta, lnq |-> next_step.lnq, u |-> RZero,
                    before |-> cfg]]

NoIteration == [executable |-> FALSE, proposes |-> 0, draws |-> 0, executes |-> 0, x |-> 0, delta |-> 0, lnq |-> 0, u |-> RZero, before |-> 0]


----------------------------------------------------------------------------
(* Simulation base.                                                        *)

(* check_for_posix_signal: a caught signal sets is_terminating and is      *)
(* reported to the caller.                                                 *)
check_for_posix_signal(caught, terminating) ==
  [reported |-> caught, is_terminating |-> terminating \/ caught]

----------------------------------------------------------------------------
(* The calls of do_metropolis_simulation.                                  *)

Apis == {"single", "multi_acc", "multi_vec"}

SeqsUpTo(S, k) == UNION {[1 .. len -> S] : len \in 0 .. k}

BetaRanges(a) == IF a = "single" THEN [1 .. 1 -> Betas] ELSE SeqsUpTo(Betas, MaxBetas)

ParameterSets == [relaxation_steps : 0 .. MaxRelax, measurement_number : 0 .. MaxMeas, steps_between_measurement : 0 .. MaxBetween]

(* The number of events a call plans: per beta, the relaxation steps and,  *)
(* per measurement, the steps, the handler, the accumulation and the poll. *)
PlannedEvents(p, bs) == Len(bs) * (p.relaxation_steps + p.measurement_number * (p.steps_between_measurement + 3))

(* The accumulator the running single-beta call was handed: one of the     *)
(* caller's, or (0) the VectorAccumulator of do_metropolis_simulation(beta).*)
AccumulatorRef == IF api = "multi_vec" THEN 0 ELSE measurement_accumulator_iterator

Event(kind, val) == [ev |-> kind, call |-> calls, beta |-> beta, acc |-> AccumulatorRef, val |-> val]

(* What a caller can find in the return slot of a value-returning function *)
(* that ends without a return statement.                                   *)
UndefinedReturns == {[kind |-> "crash", value |-> << >>]} \cup {[kind |-> "value", value |-> v] : v \in SeqsUpTo(SeqsUpTo(Levels, 1), 1)}

NoReturn == [kind |-> "none", value |-> << >>]
VoidReturn == [kind |-> "void", value |-> << >>]

InitEngine ==
  /\ configuration_space \in Levels
  /\ rng = 0
  /\ is_terminating = FALSE
  /\ signal_caught = FALSE

InitControl ==
  /\ ret = "none"
  /\ num_steps = 0
  /\ i = 0
  /\ m = 0
  /\ calls = 0
  /\ propose_calls = 0
  /\ signal_at = [call |-> 0, samples |-> 0]
  /\ log = << >>
  /\ iter = NoIteration

NoHistogram ==
  /\ values = << >>
  /\ binning = [width |-> 1, reference |-> 0]
  /\ ops = << >>

NoCheck == [ln_f |-> [k |-> "fin", n |-> 0, d |-> 1], flatness |-> [k |-> "fin", n |-> 0, d |-> 1], batches |-> 0, incidence |-> << >>]

NoWangLandau ==
  /\ wl_parameters = [modification_factor_initial |-> 0, modification_factor_final |-> 0, modification_factor_multiplier |-> 0, flatness |-> 0, sweep_steps |-> 0]
  /\ density_of_states = << >>
  /\ incidence_counter = << >>
  /\ modification_factor_current = 0
  /\ energy_cur = 0
  /\ stage_steps = [iterations |-> 0, executable |-> 0]
  /\ stage_batches = 0
  /\ refinements = 0
  /\ last_check = NoCheck
  /\ visited = {}

NoSaved == [parameters |-> [relaxation_steps |-> 0, measurement_number |-> 0, steps_between_measurement |-> 0], rng |-> 0]

NoArchive ==
  /\ seed = 0
  /\ archive = << >>
  /\ saved = NoSaved
  /\ twin_start = 0
  /\ NoWangLandau
  /\ NoHistogram

NoAutocorrelation ==
  /\ maximal_time = 0
  /\ simulation_time_factor = 0
  /\ observable_measurements = << >>
  /\ i_measurement = 0
  /\ time = 0
  /\ measured_mean = 0
  /\ sample_seeds_sum = FALSE
  /\ out_of_range = FALSE

Init ==
  /\ simulation_parameters \in ParameterSets
  /\ InitEngine
  /\ api \in Apis
  /\ betas \in BetaRanges(api)
  /\ PlannedEvents(simulation_parameters, betas) <= MaxPlanned
  /\ beta_iterator = 1
  /\ measurement_accumulator_iterator = 1
  /\ accumulators = IF api = "multi_vec" THEN << >> ELSE [k \in 1 .. Len(betas) |-> << >>]
  /\ internal_vector = << >>
  /\ results = << >>
  /\ retval = NoReturn
  /\ beta = IF api = "single" THEN betas[1] ELSE 0
  /\ pc = IF api = "single" THEN "sim_entry" ELSE "loop_head"
  /\ InitControl
  /\ NoAutocorrelation
  /\ NoArchive

(* for (...; beta != last_beta; ...) of both multi-beta overloads: the     *)
(* loop test, then the call in the loop body with *beta_iterator (and, in   *)
(* the vector-of-vectors overload, through do_metropolis_simulation(beta)  *)
(* with its fresh VectorAccumulator), or the end of the loop.              *)
multi_beta_loop_head ==
  /\ pc = "loop_head"
  /\ IF beta_iterator <= Len(betas)
     THEN /\ pc' = "sim_entry"
          /\ beta' = betas[beta_iterator]
          /\ internal_vector' = << >>
     ELSE /\ pc' = "loop_exit"
          /\ UNCHANGED <<beta, internal_vector>>
  /\ UNCHANGED <<engineVars, api, betas, beta_iterator, measurement_accumulator_iterator, accumulators, results, retval>>
  /\ UNCHANGED <<ret, num_steps, i, m, historyVars>>
  /\ UNCHANGED <<autoVars, serVars>>
  /\ UNCHANGED <<wlVars, histVars>>

(* Entry of do_metropolis_simulation(beta, accumulator): the call of       *)
(* do_metropolis_steps(relaxation_steps, beta).                            *)
do_metropolis_simulation_entry ==
  /\ pc = "sim_entry"
  /\ num_steps' = simulation_parameters.relaxation_steps
  /\ i' = 0
  /\ m' = 0
  /\ ret' = "meas_loop"
  /\ pc' = "steps"
  /\ calls' = calls + 1
  /\ propose_calls' = 0
  /\ log' = Append(log, [ev |-> "call", call |-> calls + 1, beta |-> beta, acc |-> AccumulatorRef, val |-> 0])
  /\ UNCHANGED <<engineVars, callVars, signal_at, iter>>
  /\ UNCHANGED <<autoVars, serVars>>
  /\ UNCHANGED <<wlVars, histVars>>

(* One iteration of the loop of do_metropolis_steps.                       *)
do_metropolis_steps_iteration(rawStep, rawAccept) ==
  /\ pc = "steps"
  /\ i < num_steps
  /\ LET r == metropolis_iteration(configuration_space, rng, beta, rawStep, rawAccept)
     IN /\ configuration_space' = r.config
        /\ rng' = r.rng
        /\ iter' = r.did
        /\ propose_calls' = propose_calls + r.did.proposes
  /\ i' = i + 1
  /\ log' = Append(log, Event("step", 0))
  /\ UNCHANGED <<simulation_parameters, is_terminating, signal_caught, callVars>>
  /\ UNCHANGED <<pc, ret, num_steps, m, calls, signal_at>>
  /\ UNCHANGED <<autoVars, serVars>>
  /\ UNCHANGED <<wlVars, histVars>>

(* do_metropolis_steps with a poll of the POSIX signal at its end.          *)
do_metropolis_steps_return_polls ==
  /\ pc = "steps"
  /\ ~(i < num_steps)
  /\ pc' = ret
  /\ iter' = NoIteration
  /\ is_terminating' = check_for_posix_signal(signal_caught, is_terminating).is_terminating
  /\ UNCHANGED <<simulation_parameters, configuration_space, rng, signal_caught>>
  /\ UNCHANGED <<callVars, ret, num_steps, i, m, calls, propose_calls, signal_at, log>>
  /\ UNCHANGED <<autoVars, serVars>>
  /\ UNCHANGED <<wlVars, histVars>>

(* The loop of do_metropolis_steps ends and the function returns.          *)
do_metropolis_steps_return ==
  /\ pc = "steps"
  /\ ~(i < num_steps)
  /\ pc' = ret
  /\ iter' = NoIteration
  /\ UNCHANGED <<engineVars, callVars, ret, num_steps, i, m, calls, propose_calls, signal_at, log>>
  /\ UNCHANGED <<autoVars, serVars>>
  /\ UNCHANGED <<wlVars, histVars>>

(* measurement_loop_head with the loop test `m <= measurement_number`.      *)
measurement_loop_head_offbyone ==
  /\ pc = "meas_loop"
  /\ IF m <= simulation_parameters.measurement_number
     THEN /\ num_steps' = simulation_parameters.steps_between_measurement
          /\ i' = 0
          /\ ret' = "handler"
          /\ pc' = "steps"
          /\ propose_calls' = 0
     ELSE /\ pc' = "sim_return"
          /\ UNCHANGED <<num_steps, i, ret, propose_calls>>
  /\ UNCHANGED <<engineVars, callVars, m, calls, signal_at, log, iter>>
  /\ UNCHANGED <<autoVars, serVars>>
  /\ UNCHANGED <<wlVars, histVars>>

(* for (m = 0; m < measurement_number; ++m): the loop test, then either    *)
(* the call of do_metropolis_steps(steps_between_measurement, beta) or the *)
(* end of the function.                                                    *)
measurement_loop_head ==
  /\ pc = "meas_loop"
  /\ IF m < simulation_parameters.measurement_number
     THEN /\ num_steps' = simulation_parameters.steps_between_measurement
          /\ i' = 0
          /\ ret' = "handler"
          /\ pc' = "steps"
          /\ propose_calls' = 0
     ELSE /\ pc' = "sim_return"
          /\ UNCHANGED <<num_steps, i, ret, propose_calls>>
  /\ UNCHANGED <<engineVars, callVars, m, calls, signal_at, log, iter>>
  /\ UNCHANGED <<autoVars, serVars>>
  /\ UNCHANGED <<wlVars, histVars>>

(* signal_handler_measurement(this).                                       *)
signal_handler_measurement ==
  /\ pc = "handler"
  /\ log' = Append(log, Event("handler", 0))
  /\ pc' = "accumulate"
  /\ UNCHANGED <<engineVars, callVars, ret, num_steps, i, m, calls, propose_calls, signal_at, iter>>
  /\ UNCHANGED <<autoVars, serVars>>
  /\ UNCHANGED <<wlVars, histVars>>

(* measurement_accumulator(Observable::observe(configuration_space)).      *)
measurement_accumulator ==
  /\ pc = "accumulate"
  /\ IF AccumulatorRef = 0
     THEN /\ internal_vector' = Append(internal_vector, observe(configuration_space))
          /\ UNCHANGED accumulators
     ELSE /\ accumulators' = [accumulators EXCEPT ![AccumulatorRef] = Append(@, observe(configuration_space))]
          /\ UNCHANGED internal_vector
  /\ log' = Append(log, Event("acc", observe(configuration_space)))
  /\ pc' = "poll"
  /\ UNCHANGED <<engineVars, api, betas, beta_iterator, measurement_accumulator_iterator, results, retval, beta>>
  /\ UNCHANGED <<ret, num_steps, i, m, calls, propose_calls, signal_at, iter>>
  /\ UNCHANGED <<autoVars, serVars>>
  /\ UNCHANGED <<wlVars, histVars>>

(* poll_posix_signal with the result of the poll ignored.                  *)
poll_posix_signal_ignored ==
  /\ pc = "poll"
  /\ LET c == check_for_posix_signal(signal_caught, is_terminating)
     IN /\ is_terminating' = c.is_terminating
        /\ log' = Append(log, Event("poll", IF c.reported THEN 1 ELSE 0))
        /\ pc' = "meas_loop"
        /\ m' = m + 1
  /\ UNCHANGED <<simulation_parameters, configuration_space, rng, signal_caught, callVars>>
  /\ UNCHANGED <<ret, num_steps, i, calls, propose_calls, signal_at, iter>>
  /\ UNCHANGED <<autoVars, serVars>>
  /\ UNCHANGED <<wlVars, histVars>>

(* if (this->check_for_posix_signal()) return; else ++m.                   *)
poll_posix_signal ==
  /\ pc = "poll"
  /\ LET c == check_for_posix_signal(signal_caught, is_terminating)
     IN /\ is_terminating' = c.is_terminating
        /\ log' = Append(log, Event("poll", IF c.reported THEN 1 ELSE 0))
        /\ IF c.reported
           THEN /\ pc' = "sim_return"
                /\ m' = m
           ELSE /\ pc' = "meas_loop"
                /\ m' = m + 1
  /\ UNCHANGED <<simulation_parameters, configuration_space, rng, signal_caught, callVars>>
  /\ UNCHANGED <<ret, num_steps, i, calls, propose_calls, signal_at, iter>>
  /\ UNCHANGED <<autoVars, serVars>>
  /\ UNCHANGED <<wlVars, histVars>>

(* single_beta_return with the accumulator iterator never incremented.     *)
single_beta_return_sameacc ==
  /\ pc = "sim_return"
  /\ results' = IF api = "multi_vec" THEN Append(results, internal_vector) ELSE results
  /\ IF api = "single"
     THEN /\ pc' = "done"
          /\ retval' = VoidReturn
          /\ UNCHANGED <<beta_iterator, measurement_accumulator_iterator>>
     ELSE IF is_terminating
          THEN /\ pc' = "loop_exit"
               /\ UNCHANGED <<beta_iterator, measurement_accumulator_iterator, retval>>
          ELSE /\ pc' = "loop_head"
               /\ beta_iterator' = beta_iterator + 1
               /\ UNCHANGED <<measurement_accumulator_iterator, retval>>
  /\ UNCHANGED <<engineVars, api, betas, accumulators, internal_vector, beta>>
  /\ UNCHANGED <<ret, num_steps, i, m, historyVars>>
  /\ UNCHANGED <<autoVars, serVars>>
  /\ UNCHANGED <<wlVars, histVars>>

(* single_beta_return without `if (this->is_terminating) break;`.          *)
single_beta_return_nobreak ==
  /\ pc = "sim_return"
  /\ results' = IF api = "multi_vec" THEN Append(results, internal_vector) ELSE results
  /\ IF api = "single"
     THEN /\ pc' = "done"
          /\ retval' = VoidReturn
          /\ UNCHANGED <<beta_iterator, measurement_accumulator_iterator>>
     ELSE /\ pc' = "loop_head"
          /\ beta_iterator' = beta_iterator + 1
          /\ measurement_accumulator_iterator' = IF api = "multi_acc" THEN measurement_accumulator_iterator + 1 ELSE measurement_accumulator_iterator
          /\ UNCHANGED retval
  /\ UNCHANGED <<engineVars, api, betas, accumulators, internal_vector, beta>>
  /\ UNCHANGED <<ret, num_steps, i, m, historyVars>>
  /\ UNCHANGED <<autoVars, serVars>>
  /\ UNCHANGED <<wlVars, histVars>>

(* The single-beta call has returned to its caller: the user, or the body  *)
(* of a multi-beta loop (in the vector-of-vectors overload the push_back   *)
(* of the returned internal_vector), then `if (is_terminating) break;`,     *)
(* else the increment of the iterators.                                    *)
single_beta_return ==
  /\ pc = "sim_return"
  /\ results' = IF api = "multi_vec" THEN Append(results, internal_vector) ELSE results
  /\ IF api = "single"
     THEN /\ pc' = "done"
          /\ retval' = VoidReturn
          /\ UNCHANGED <<beta_iterator, measurement_accumulator_iterator>>
     ELSE IF is_terminating
          THEN /\ pc' = "loop_exit"
               /\ UNCHANGED <<beta_iterator, measurement_accumulator_iterator, retval>>
          ELSE /\ pc' = "loop_head"
               /\ beta_iterator' = beta_iterator + 1
               /\ measurement_accumulator_iterator' = IF api = "multi_acc" THEN measurement_accumulator_iterator + 1 ELSE measurement_accumulator_iterator
               /\ UNCHANGED retval
  /\ UNCHANGED <<engineVars, api, betas, accumulators, internal_vector, beta>>
  /\ UNCHANGED <<ret, num_steps, i, m, historyVars>>
  /\ UNCHANGED <<autoVars, serVars>>
  /\ UNCHANGED <<wlVars, histVars>>

(* The end of a multi-beta overload.  The overload with accumulators       *)
(* returns void.  The vector-of-vectors overload reaches its closing brace *)
(* without a return statement: undefined behaviour.                        *)
multi_beta_return ==
  /\ pc = "loop_exit"
  /\ IF api = "multi_vec"
     THEN retval' \in UndefinedReturns
     ELSE retval' = VoidReturn
  /\ pc' = "done"
  /\ UNCHANGED <<engineVars, api, betas, beta_iterator, measurement_accumulator_iterator, accumulators, internal_vector, results, beta>>
  /\ UNCHANGED <<ret, num_steps, i, m, historyVars>>
  /\ UNCHANGED <<autoVars, serVars>>
  /\ UNCHANGED <<wlVars, histVars>>

(* A POSIX signal arrives while the call is running.                       *)
raise_signal ==
  /\ pc # "done"
  /\ ~signal_caught
  /\ signal_caught' = TRUE
  /\ signal_at' = [call |-> calls, samples |-> Cardinality({k \in 1 .. Len(log) : log[k].ev = "acc" /\ log[k].call = calls})]
  /\ UNCHANGED <<simulation_parameters, configuration_space, rng, is_terminating, callVars, controlVars, calls, propose_calls, log, iter>>
  /\ UNCHANGED <<autoVars, serVars>>
  /\ UNCHANGED <<wlVars, histVars>>

Next ==
  \/ multi_beta_loop_head
  \/ do_metropolis_simulation_entry
  \/ \E rawStep \in RawValues, rawAccept \in RawValues : do_metropolis_steps_iteration(rawStep, rawAccept)
  \/ do_metropolis_steps_return
  \/ measurement_loop_head
  \/ signal_handler_measurement
  \/ measurement_accumulator
  \/ poll_posix_signal
  \/ single_beta_return
  \/ multi_beta_return
  \/ raise_signal

Spec == Init /\ [][Next]_vars

----------------------------------------------------------------------------
(* Reading the history.                                                    *)

RECURSIVE Repeat(_, _)
Repeat(s, n) == IF n <= 0 THEN << >> ELSE s \o Repeat(s, n - 1)

Kinds(s) == [k \in 1 .. Len(s) |-> s[k].ev]
Values(s) == [k \in 1 .. Len(s) |-> s[k].val]

(* The events of the c-th single-beta call, without its entry.             *)
CallEvents(c) == SelectSeq(log, LAMBDA e : e.call = c /\ e.ev # "call")
OfKind(s, kind) == SelectSeq(s, LAMBDA e : e.ev = kind)
AccValues(s) == Values(OfKind(s, "acc"))

(* Relaxation, then k rounds of steps, handler, accumulation, poll.        *)
RoundsOf(p, k) == Repeat(<<"step">>, p.relaxation_steps) \o Repeat(Repeat(<<"step">>, p.steps_between_measurement) \o <<"handler", "acc", "poll">>, k)

CurrentAccumulator == IF AccumulatorRef = 0 THEN internal_vector ELSE accumulators[AccumulatorRef]

(* The polls of the history that reported a signal.                        *)
Reported(s) == SelectSeq(s, LAMBDA e : e.ev = "poll" /\ e.val = 1)

----------------------------------------------------------------------------
(* C1: a single-beta do_metropolis_simulation in which no poll reports a   *)
(* signal runs relaxation_steps steps, then measurement_number rounds of   *)
(* (steps_between_measurement steps, one handler call, one accumulation of *)
(* observe(config), one poll), in that order and nothing else; so the      *)
(* accumulator holds measurement_number values and relaxation_steps +      *)
(* measurement_number * steps_between_measurement steps were run.          *)
C1_EventSequence ==
  /\ (pc = "poll" => CurrentAccumulator[Len(CurrentAccumulator)] = observe(configuration_space))
  /\ (pc = "sim_return" /\ Reported(log) = << >>) =>
       LET ev == CallEvents(calls)
           p == simulation_parameters
       IN /\ Kinds(ev) = RoundsOf(p, p.measurement_number)
          /\ Len(CurrentAccumulator) = p.measurement_number
          /\ CurrentAccumulator = AccValues(ev)
          /\ Len(OfKind(ev, "step")) = p.relaxation_steps + p.measurement_number * p.steps_between_measurement

C1_Witness ==
  /\ api = "single"
  /\ pc = "sim_return"
  /\ ~signal_caught
  /\ simulation_parameters.relaxation_steps = 1
  /\ simulation_parameters.measurement_number = 2
  /\ simulation_parameters.steps_between_measurement = 1

(* C2: when the poll after the k-th measurement is the first to report a   *)
(* signal, the single-beta call returns at once: its events end with that  *)
(* poll, the accumulator holds exactly the k values delivered, and         *)
(* is_terminating is true.  A signal that arrived when the accumulator     *)
(* held j values leaves it with j or j + 1 values.                         *)
C2_SignalReturn ==
  \A n \in 1 .. Len(log) :
    (log[n].ev = "poll" /\ log[n].val = 1) =>
      LET ev == CallEvents(calls)
          k == m + 1
      IN /\ n = Len(log)
         /\ log[n].call = calls
         /\ pc \in {"sim_return", "loop_exit", "done"}
         /\ k \in 1 .. simulation_parameters.measurement_number
         /\ is_terminating
         /\ Kinds(ev) = RoundsOf(simulation_parameters, k)
         /\ Len(Reported(ev)) = 1
         /\ Len(CurrentAccumulator) = k
         /\ CurrentAccumulator = AccValues(ev)
         /\ (signal_at.call = calls => signal_at.samples <= Len(CurrentAccumulator) /\ Len(CurrentAccumulator) <= signal_at.samples + 1)

C2_Witness ==
  /\ api = "single"
  /\ pc = "done"
  /\ Reported(log) # << >>
  /\ m + 1 < simulation_parameters.measurement_number
  /\ signal_at.samples = 1

(* C3: the overload with a beta range and an accumulator range runs the    *)
(* single-beta simulation for (beta[1], accumulator[1]), (beta[2],         *)
(* accumulator[2]), ... in that order: every step, handler call,           *)
(* accumulation and poll of the j-th call is made at beta[j] and with      *)
(* accumulator j, and accumulator j holds the values of the j-th call only. *)
C3_BetaOrder ==
  api = "multi_acc" =>
    /\ \A k \in 1 .. Len(log) : log[k].call \in 1 .. Len(betas) /\ log[k].beta = betas[log[k].call] /\ log[k].acc = log[k].call
    /\ \A k \in 1 .. Len(log) - 1 : log[k].call <= log[k + 1].call
    /\ \A j \in 1 .. Len(betas) : accumulators[j] = AccValues(CallEvents(j))

C3_Witness ==
  /\ api = "multi_acc"
  /\ pc = "done"
  /\ Len(betas) = 2
  /\ betas[1] # betas[2]
  /\ accumulators[1] # << >>
  /\ accumulators[2] # << >>

(* C4: in the multi-beta overloads, once is_terminating is set during the  *)
(* call for beta[i], nothing more is run: the reporting poll stays the     *)
(* last event, no call is made for a later beta, the later accumulators    *)
(* stay empty, and the values of the calls 1 .. i are kept.                *)
C4_BreakOnTerminating ==
  (api # "single" /\ is_terminating) =>
    /\ pc \in {"sim_return", "loop_exit", "done"}
    /\ log[Len(log)].ev = "poll" /\ log[Len(log)].val = 1 /\ log[Len(log)].call = calls
    /\ calls = beta_iterator
    /\ api = "multi_acc" => \A j \in 1 .. Len(betas) : accumulators[j] = IF j > calls THEN << >> ELSE AccValues(CallEvents(j))
    /\ (api = "multi_vec" /\ pc # "sim_return") => results = [j \in 1 .. calls |-> AccValues(CallEvents(j))]

C4_Witness ==
  /\ api = "multi_acc"
  /\ is_terminating
  /\ pc = "done"
  /\ calls < Len(betas)
  /\ accumulators[1] # << >>

(* C5: the vector-of-vectors overload returns its results: one entry per   *)
(* beta processed, in order, entry j holding the measurements of the j-th  *)
(* call.                                                                   *)
C5_ReturnsResults ==
  (api = "multi_vec" /\ pc = "done") =>
    /\ retval.kind = "value"
    /\ retval.value = results
    /\ results = [j \in 1 .. calls |-> AccValues(CallEvents(j))]

(* C6: do_metropolis_steps(n, beta) calls propose_step once per iteration  *)
(* and n times in all; an iteration whose step is not executable draws no  *)
(* uniform number, executes nothing and leaves the configuration as it     *)
(* was; an iteration whose step is executable draws exactly one.           *)
C6_ProposeAndDraw ==
  /\ (pc = "steps" => propose_calls = i /\ i <= num_steps)
  /\ (pc # "steps" /\ ret # "none" => propose_calls = num_steps)
  /\ iter.proposes = 1 =>
       IF (iter.before + iter.delta) \in Levels
       THEN iter.draws = 1
       ELSE iter.draws = 0 /\ iter.executes = 0 /\ configuration_space = iter.before

C6_Witness ==
  /\ pc = "steps"
  /\ i = num_steps
  /\ num_steps >= 1
  /\ iter.proposes = 1
  /\ (iter.before + iter.delta) \notin Levels

(* C7: with x = beta * delta_E, q the selection probability factor and u   *)
(* the uniform draw, an executable step is executed (once) exactly if      *)
(* x <= -ln q or u < (1/q) exp(-x); the first arm implies the second, so   *)
(* it never changes the decision; with q = 1 a step with x <= 0 is always  *)
(* executed.                                                               *)
C7_Acceptance ==
  (iter.proposes = 1 /\ (iter.before + iter.delta) \in Levels) =>
    LET x == beta * iter.delta
        arm1 == x <= -iter.lnq
        arm2 == iter.u.zero \/ iter.u.ln < -iter.lnq - x
    IN /\ iter.executes \in {0, 1}
       /\ iter.executes = 1 <=> (arm1 \/ arm2)
       /\ arm1 => arm2
       /\ (iter.lnq = 0 /\ x <= 0) => iter.executes = 1
       /\ configuration_space = iter.before + (IF iter.executes = 1 THEN iter.delta ELSE 0)

C7_Witness ==
  /\ iter.proposes = 1
  /\ iter.executes = 1
  /\ beta * iter.delta > -iter.lnq
  /\ ~iter.u.zero

----------------------------------------------------------------------------
(* autocorrelation_function and integrated_autocorrelation_time.           *)

MaxTime == 2
MaxFactor == 2

(* Width of unsigned int in the model: arithmetic on unsigned values is    *)
(* modulo 2^UIntBits.                                                      *)
UIntBits == 2

(* ConfigurationType::system_size() of the level system.                   *)
SystemSize == 2

RECURSIVE Pow2(_)
Pow2(n) == IF n = 0 THEN 1 ELSE 2 * Pow2(n - 1)

UIntModulus == Pow2(UIntBits)
UMul(a, b) == (a * b) % UIntModulus
UAdd(a, b) == (a + b) % UIntModulus

(* Doubles: NaN, an infinity with its sign in n, or the finite value n/d   *)
(* in lowest terms with d > 0.  Finite arithmetic is exact.                *)
RECURSIVE GCD(_, _)
GCD(a, b) == IF b = 0 THEN a ELSE GCD(b, a % b)

Abs(x) == IF x < 0 THEN -x ELSE x
Sign(x) == IF x < 0 THEN -1 ELSE 1

DNaN == [k |-> "nan", n |-> 0, d |-> 1]
DInf(sgn) == [k |-> "inf", n |-> sgn, d |-> 1]
DFin(n, d) == LET g == GCD(Abs(n), Abs(d)) IN [k |-> "fin", n |-> (Sign(d) * n) \div g, d |-> Abs(d) \div g]
DInt(x) == DFin(x, 1)

DNeg(a) == IF a.k = "nan" THEN a ELSE [a EXCEPT !.n = -a.n]

DAdd(a, b) ==
  IF a.k = "nan" \/ b.k = "nan" THEN DNaN
  ELSE IF a.k = "inf" /\ b.k = "inf" THEN (IF a.n = b.n THEN a ELSE DNaN)
  ELSE IF a.k = "inf" THEN a
  ELSE IF b.k = "inf" THEN b
  ELSE DFin(a.n * b.d + b.n * a.d, a.d * b.d)

DSub(a, b) == DAdd(a, DNeg(b))

DMul(a, b) ==
  IF a.k = "nan" \/ b.k = "nan" THEN DNaN
  ELSE IF a.k = "inf" \/ b.k = "inf" THEN (IF a.n = 0 \/ b.n = 0 THEN DNaN ELSE DInf(Sign(a.n) * Sign(b.n)))
  ELSE DFin(a.n * b.n, a.d * b.d)

DDiv(a, b) ==
  IF a.k = "nan" \/ b.k = "nan" THEN DNaN
  ELSE IF a.k = "inf" THEN (IF b.k = "inf" THEN DNaN ELSE DInf(a.n * Sign(b.n)))
  ELSE IF b.k = "inf" THEN DInt(0)
  ELSE IF b.n = 0 THEN (IF a.n = 0 THEN DNaN ELSE DInf(Sign(a.n)))
  ELSE DFin(a.n * b.d, a.d * b.n)

RECURSIVE DSum(_)
DSum(s) == IF s = << >> THEN DInt(0) ELSE DAdd(s[1], DSum(Tail(s)))

(* ba::mean of an accumulator_set constructed with the argument first and  *)
(* then fed the values of s: sum / count.  Whether the library takes the   *)
(* constructor argument as the initial value of the sum is a property of   *)
(* the build.                                                              *)
accumulator_mean(first, s) == DDiv(DAdd(IF sample_seeds_sum THEN first ELSE DInt(0), DSum(s)), DInt(Len(s)))

(* What an element read outside a vector can hold.                         *)
GarbageDoubles == {DInt(0), DInt(1), DNaN}

(* The indices (0-based) that the inner loop over sweeps reads for one     *)
(* time: start_time = sweep * maximal_time and start_time + time.          *)
sweep_indices(t) == [sw \in 1 .. simulation_time_factor |-> <<UMul(sw - 1, maximal_time), UAdd(UMul(sw - 1, maximal_time), t)>>]

(* results entry for one time: mean over the sweeps of the products, minus *)
(* measured_mean squared.                                                  *)
autocorrelation_at(t) ==
  LET ix == sweep_indices(t)
      products == [sw \in 1 .. Len(ix) |-> DMul(observable_measurements[ix[sw][1] + 1], observable_measurements[ix[sw][2] + 1])]
  IN DSub(accumulator_mean(observable_measurements[1], products), DMul(measured_mean, measured_mean))

(* The loop of integrated_autocorrelation_time from t on.                  *)
RECURSIVE tau_loop(_, _, _, _)
tau_loop(result, vec, t, N) ==
  IF t < N
  THEN tau_loop(DAdd(result, DMul(DMul(DInt(2), DSub(DInt(1), DDiv(DInt(t), DInt(N)))), DDiv(vec[t + 1], vec[1]))), vec, t + 1, N)
  ELSE result

(* integrated_autocorrelation_time with result initialised to 1.0.         *)
integrated_time_from_one(vec, N) == tau_loop(DInt(1), vec, 1, N)

integrated_time(vec, N) == tau_loop(DDiv(vec[1], vec[1]), vec, 1, N)

AutoApis == {"acf", "tau"}

InitAuto ==
  /\ simulation_parameters \in [relaxation_steps : {0, MaxRelax}, measurement_number : {0}, steps_between_measurement : {0}]
  /\ InitEngine
  /\ api \in AutoApis
  /\ betas = <<1>>
  /\ beta = betas[1]
  /\ beta_iterator = 1
  /\ measurement_accumulator_iterator = 1
  /\ accumulators = << >>
  /\ internal_vector = << >>
  /\ results = << >>
  /\ retval = NoReturn
  /\ pc = "acf_entry"
  /\ InitControl
  /\ maximal_time \in 0 .. MaxTime
  /\ simulation_time_factor \in 0 .. MaxFactor
  /\ observable_measurements = << >>
  /\ i_measurement = 0
  /\ time = 0
  /\ measured_mean = DInt(0)
  /\ sample_seeds_sum \in BOOLEAN
  /\ out_of_range = FALSE
  /\ NoArchive

(* Entry of autocorrelation_function (for integrated_autocorrelation_time: *)
(* its call of autocorrelation_function): the relaxation steps.            *)
autocorrelation_function_entry ==
  /\ pc = "acf_entry"
  /\ num_steps' = simulation_parameters.relaxation_steps
  /\ i' = 0
  /\ ret' = "acf_sample"
  /\ pc' = "steps"
  /\ calls' = calls + 1
  /\ propose_calls' = 0
  /\ i_measurement' = 0
  /\ UNCHANGED <<engineVars, callVars, m, signal_at, log, iter>>
  /\ UNCHANGED <<maximal_time, simulation_time_factor, observable_measurements, time, measured_mean, out_of_range, sample_seeds_sum, serVars>>
  /\ UNCHANGED <<wlVars, histVars>>

(* for (i = 0; i <= maximal_time*simulation_time_factor; ++i): the loop    *)
(* test, then do_metropolis_steps(system_size, beta) or the end of the     *)
(* loop.                                                                   *)
autocorrelation_sampling_loop ==
  /\ pc = "acf_sample"
  /\ IF i_measurement <= UMul(maximal_time, simulation_time_factor)
     THEN /\ num_steps' = SystemSize
          /\ i' = 0
          /\ ret' = "acf_observe"
          /\ pc' = "steps"
          /\ propose_calls' = 0
     ELSE /\ pc' = "acf_mean"
          /\ UNCHANGED <<num_steps, i, ret, propose_calls>>
  /\ UNCHANGED <<engineVars, callVars, m, calls, signal_at, log, iter, autoVars, serVars>>
  /\ UNCHANGED <<wlVars, histVars>>

(* observable_measurements.push_back(Observable::observe(...)); ++i.       *)
autocorrelation_observe ==
  /\ pc = "acf_observe"
  /\ observable_measurements' = Append(observable_measurements, DInt(observe(configuration_space)))
  /\ i_measurement' = UAdd(i_measurement, 1)
  /\ log' = Append(log, Event("observe", observe(configuration_space)))
  /\ pc' = "acf_sample"
  /\ UNCHANGED <<engineVars, callVars, ret, num_steps, i, m, calls, propose_calls, signal_at, iter>>
  /\ UNCHANGED <<maximal_time, simulation_time_factor, time, measured_mean, out_of_range, sample_seeds_sum, serVars>>
  /\ UNCHANGED <<wlVars, histVars>>

(* The mean of observable_measurements[0 .. maximal_time *                 *)
(* simulation_time_factor].                                                *)
autocorrelation_measured_mean ==
  /\ pc = "acf_mean"
  /\ measured_mean' = accumulator_mean(observable_measurements[1], SubSeq(observable_measurements, 1, UMul(maximal_time, simulation_time_factor) + 1))
  /\ time' = 0
  /\ pc' = "acf_time"
  /\ UNCHANGED <<engineVars, callVars, ret, num_steps, i, m, historyVars>>
  /\ UNCHANGED <<maximal_time, simulation_time_factor, observable_measurements, i_measurement, out_of_range, sample_seeds_sum, serVars>>
  /\ UNCHANGED <<wlVars, histVars>>

(* for (time = 0; time <= maximal_time; ++time): the loop test and the     *)
(* body with its loop over the sweeps, or the end of the loop.  Reading an *)
(* element that observable_measurements does not hold is undefined         *)
(* behaviour: the program stops, or the entry is computed from garbage.    *)
autocorrelation_time_loop ==
  /\ pc = "acf_time"
  /\ IF time <= maximal_time
     THEN LET ix == sweep_indices(time)
              inside == \A sw \in 1 .. Len(ix) : ix[sw][1] < Len(observable_measurements) /\ ix[sw][2] < Len(observable_measurements)
          IN IF inside
             THEN /\ results' = Append(results, autocorrelation_at(time))
                  /\ time' = UAdd(time, 1)
                  /\ UNCHANGED <<pc, out_of_range>>
             ELSE /\ out_of_range' = TRUE
                  /\ \E outcome \in {"stop", "garbage"} :
                       IF outcome = "stop"
                       THEN /\ pc' = "crashed"
                            /\ UNCHANGED <<results, time>>
                       ELSE /\ \E g \in GarbageDoubles : results' = Append(results, g)
                            /\ time' = UAdd(time, 1)
                            /\ UNCHANGED pc
     ELSE /\ pc' = "acf_return"
          /\ UNCHANGED <<results, time, out_of_range>>
  /\ UNCHANGED <<engineVars, api, betas, beta_iterator, measurement_accumulator_iterator, accumulators, internal_vector, retval, beta>>
  /\ UNCHANGED <<ret, num_steps, i, m, historyVars>>
  /\ UNCHANGED <<maximal_time, simulation_time_factor, observable_measurements, i_measurement, measured_mean, sample_seeds_sum, serVars>>
  /\ UNCHANGED <<wlVars, histVars>>

(* return results; for integrated_autocorrelation_time the rest of the     *)
(* function, which returns result.                                         *)
autocorrelation_function_return ==
  /\ pc = "acf_return"
  /\ retval' = IF api = "tau"
               THEN [kind |-> "value", value |-> integrated_time(results, maximal_time)]
               ELSE [kind |-> "value", value |-> results]
  /\ pc' = "done"
  /\ UNCHANGED <<engineVars, api, betas, beta_iterator, measurement_accumulator_iterator, accumulators, internal_vector, results, beta>>
  /\ UNCHANGED <<ret, num_steps, i, m, historyVars, autoVars, serVars>>
  /\ UNCHANGED <<wlVars, histVars>>

NextAuto ==
  \/ autocorrelation_function_entry
  \/ \E rawStep \in RawValues, rawAccept \in RawValues : do_metropolis_steps_iteration(rawStep, rawAccept)
  \/ do_metropolis_steps_return
  \/ autocorrelation_sampling_loop
  \/ autocorrelation_observe
  \/ autocorrelation_measured_mean
  \/ autocorrelation_time_loop
  \/ autocorrelation_function_return

SpecAuto == InitAuto /\ [][NextAuto]_vars

----------------------------------------------------------------------------
(* The samples autocorrelation_function has to collect, as the integer     *)
(* maximal_time * simulation_time_factor + 1.                              *)
SampleCount == maximal_time * simulation_time_factor + 1

(* Relaxation, then k rounds of system_size steps and one observation.     *)
SweepsOf(p, k) == Repeat(<<"step">>, p.relaxation_steps) \o Repeat(Repeat(<<"step">>, SystemSize) \o <<"observe">>, k)

SamplingOver == pc \in {"acf_mean", "acf_time", "acf_return", "done", "crashed"}

(* C8: autocorrelation_function collects exactly maximal_time *            *)
(* simulation_time_factor + 1 samples, each after system_size steps, all   *)
(* after relaxation_steps steps; it reads no element outside the samples,  *)
(* whatever maximal_time and simulation_time_factor are; and the vector it *)
(* returns has maximal_time + 1 entries.                                   *)
C8_SamplesAndIndices ==
  /\ ~out_of_range
  /\ SamplingOver =>
       /\ Len(observable_measurements) = SampleCount
       /\ Kinds(CallEvents(1)) = SweepsOf(simulation_parameters, SampleCount)
  /\ pc = "done" => Len(results) = maximal_time + 1

(* The same statement for the calls whose maximal_time *                   *)
(* simulation_time_factor fits the unsigned int it is computed in.         *)
C8_WithinUnsignedRange ==
  maximal_time * simulation_time_factor < UIntModulus => C8_SamplesAndIndices

(* A call whose product fits, with more than one sweep, has returned.      *)
C8_WithinUnsignedRange_Witness ==
  /\ api = "acf"
  /\ pc = "done"
  /\ maximal_time >= 1
  /\ simulation_time_factor >= 2
  /\ maximal_time * simulation_time_factor < UIntModulus
  /\ simulation_parameters.relaxation_steps >= 1

(* A call whose product does not fit reads outside the samples.            *)
C8_Wrapped ==
  /\ maximal_time * simulation_time_factor >= UIntModulus
  /\ out_of_range
  /\ Len(observable_measurements) < SampleCount

(* integrated_autocorrelation_time has returned and C(0) was zero.         *)
DegenerateReturn ==
  /\ api = "tau"
  /\ pc = "done"
  /\ results[1] = DInt(0)

(* C9 as stated: with C(0) == 0 integrated_autocorrelation_time reports an *)
(* error to its caller instead of returning a value.                       *)
C9_ReportsError == DegenerateReturn => retval.kind = "error"

(* C9: with C(0) == 0 integrated_autocorrelation_time reports nothing: it  *)
(* returns a value, and for a floating-point observable the value is NaN.  *)
C9_ReturnsNaN == DegenerateReturn => retval = [kind |-> "value", value |-> DNaN]

(* C(0) == 0 computed from samples that were all read inside the vector,   *)
(* with an empty and with a non-empty loop over t.                         *)
C9_Witness ==
  /\ DegenerateReturn
  /\ ~out_of_range
  /\ maximal_time >= 2
  /\ retval.value = DNaN

C9_Witness_EmptyLoop ==
  /\ DegenerateReturn
  /\ ~out_of_range
  /\ maximal_time <= 1

----------------------------------------------------------------------------
(* save_serialize and load_serialize.                                      *)

MaxSeed == 3
MaxSerSteps == 2
MaxSerEvents == 8

(* The generator's output at position g of the stream of seed sd.          *)
random_raw(sd, g) == ((2 * sd + 1) * g + sd) % 4

(* A text archive is a sequence of characters: unsigned numbers in         *)
(* decimal, separated by one blank.                                        *)
DigitChars == <<"0", "1", "2", "3", "4", "5", "6", "7", "8", "9">>

RECURSIVE ToDigits(_)
ToDigits(n) == IF n < 10 THEN <<DigitChars[n + 1]>> ELSE Append(ToDigits(n \div 10), DigitChars[(n % 10) + 1])

DigitValue(ch) == CHOOSE d \in 0 .. 9 : DigitChars[d + 1] = ch

RECURSIVE FromDigits(_)
FromDigits(t) == IF t = << >> THEN 0 ELSE 10 * FromDigits(SubSeq(t, 1, Len(t) - 1)) + DigitValue(t[Len(t)])

RECURSIVE JoinTokens(_)
JoinTokens(ts) ==
  IF ts = << >> THEN << >>
  ELSE IF Len(ts) = 1 THEN ts[1]
  ELSE ts[1] \o <<" ">> \o JoinTokens(Tail(ts))

RECURSIVE SplitTokens(_, _, _)
SplitTokens(text, token, done) ==
  IF text = << >> THEN Append(done, token)
  ELSE IF Head(text) = " " THEN SplitTokens(Tail(text), << >>, Append(done, token))
  ELSE SplitTokens(Tail(text), Append(token, Head(text)), done)

(* serialize(ar): the parameters, then the state of the generator.         *)
write_archive(p, g) == JoinTokens(<<ToDigits(p.relaxation_steps), ToDigits(p.measurement_number), ToDigits(p.steps_between_measurement), ToDigits(g)>>)

read_archive(text) ==
  LET ts == SplitTokens(text, << >>, << >>)
  IN [parameters |-> [relaxation_steps |-> FromDigits(ts[1]), measurement_number |-> FromDigits(ts[2]), steps_between_measurement |-> FromDigits(ts[3])],
      rng |-> FromDigits(ts[4])]

SerParameterSets == [relaxation_steps : {0, 12}, measurement_number : {3, 100}, steps_between_measurement : {7}]

InitSer ==
  /\ simulation_parameters \in SerParameterSets
  /\ InitEngine
  /\ api = "serialize"
  /\ betas \in [1 .. 1 -> Betas]
  /\ beta = betas[1]
  /\ beta_iterator = 1
  /\ measurement_accumulator_iterator = 1
  /\ accumulators = << >>
  /\ internal_vector = << >>
  /\ results = << >>
  /\ retval = NoReturn
  /\ pc = "ser_ready"
  /\ InitControl
  /\ NoAutocorrelation
  /\ seed \in 0 .. MaxSeed
  /\ archive = << >>
  /\ saved = NoSaved
  /\ twin_start = 0
  /\ NoWangLandau
  /\ NoHistogram

(* The caller calls do_metropolis_steps(n, beta) between two other calls.  *)
call_do_metropolis_steps(n) ==
  /\ pc \in {"ser_ready", "ser_saved", "ser_restored"}
  /\ Len(log) + n <= MaxSerEvents
  /\ num_steps' = n
  /\ i' = 0
  /\ ret' = pc
  /\ pc' = "steps"
  /\ propose_calls' = 0
  /\ UNCHANGED <<engineVars, callVars, m, calls, signal_at, log, iter, autoVars, serVars>>
  /\ UNCHANGED <<wlVars, histVars>>

save_serialize ==
  /\ pc = "ser_ready"
  /\ archive' = write_archive(simulation_parameters, rng)
  /\ saved' = [parameters |-> simulation_parameters, rng |-> rng]
  /\ log' = Append(log, Event("save", 0))
  /\ pc' = "ser_saved"
  /\ UNCHANGED <<engineVars, callVars, ret, num_steps, i, m, calls, propose_calls, signal_at, iter, autoVars, seed, twin_start>>
  /\ UNCHANGED <<wlVars, histVars>>

(* set_simulation_parameters between the save and the load.                *)
set_simulation_parameters(p) ==
  /\ pc = "ser_saved"
  /\ Len(log) < MaxSerEvents
  /\ p # simulation_parameters
  /\ OfKind(log, "set") = << >>
  /\ simulation_parameters' = p
  /\ log' = Append(log, Event("set", 0))
  /\ UNCHANGED <<configuration_space, rng, is_terminating, signal_caught, callVars, controlVars>>
  /\ UNCHANGED <<calls, propose_calls, signal_at, iter, autoVars, serVars>>
  /\ UNCHANGED <<wlVars, histVars>>

(* load_serialize that reads the parameters and leaves the generator.      *)
load_serialize_parameters_only ==
  /\ pc = "ser_saved"
  /\ simulation_parameters' = read_archive(archive).parameters
  /\ log' = Append(log, Event("load", 0))
  /\ pc' = "ser_loaded"
  /\ UNCHANGED <<configuration_space, rng, is_terminating, signal_caught, callVars>>
  /\ UNCHANGED <<ret, num_steps, i, m, calls, propose_calls, signal_at, iter, autoVars, serVars>>
  /\ UNCHANGED <<wlVars, histVars>>

load_serialize ==
  /\ pc = "ser_saved"
  /\ simulation_parameters' = read_archive(archive).parameters
  /\ rng' = read_archive(archive).rng
  /\ log' = Append(log, Event("load", 0))
  /\ pc' = "ser_loaded"
  /\ UNCHANGED <<configuration_space, is_terminating, signal_caught, callVars>>
  /\ UNCHANGED <<ret, num_steps, i, m, calls, propose_calls, signal_at, iter, autoVars, serVars>>
  /\ UNCHANGED <<wlVars, histVars>>

(* The caller puts the configuration into the state the comparison starts  *)
(* from.                                                                   *)
caller_sets_configuration(c) ==
  /\ pc = "ser_loaded"
  /\ configuration_space' = c
  /\ twin_start' = c
  /\ log' = Append(log, Event("restore", c))
  /\ pc' = "ser_restored"
  /\ UNCHANGED <<simulation_parameters, rng, is_terminating, signal_caught, callVars>>
  /\ UNCHANGED <<ret, num_steps, i, m, calls, propose_calls, signal_at, iter, autoVars, seed, archive, saved>>
  /\ UNCHANGED <<wlVars, histVars>>

NextSer ==
  \/ \E n \in 1 .. MaxSerSteps : call_do_metropolis_steps(n)
  \/ do_metropolis_steps_iteration(random_raw(seed, rng), random_raw(seed, rng_advance(rng)))
  \/ do_metropolis_steps_return
  \/ save_serialize
  \/ \E p \in SerParameterSets : set_simulation_parameters(p)
  \/ load_serialize
  \/ \E c \in Levels : caller_sets_configuration(c)

SpecSer == InitSer /\ [][NextSer]_vars

----------------------------------------------------------------------------
(* The engine that was never saved and reloaded: from configuration cfg    *)
(* and generator g, n iterations of do_metropolis_steps.                   *)
RECURSIVE twin_run(_, _, _)
twin_run(cfg, g, n) ==
  IF n = 0 THEN [config |-> cfg, rng |-> g]
  ELSE LET r == metropolis_iteration(cfg, g, beta, random_raw(seed, g), random_raw(seed, rng_advance(g)))
       IN twin_run(r.config, r.rng, n - 1)

(* Position of the first event of a kind in the history, 0 if none.        *)
PositionOf(kind) == IF OfKind(log, kind) = << >> THEN 0 ELSE CHOOSE k \in 1 .. Len(log) : log[k].ev = kind /\ \A j \in 1 .. k - 1 : log[j].ev # kind

Loaded == PositionOf("load") > 0
Restored == PositionOf("restore") > 0
StepsSinceRestore == Len(log) - PositionOf("restore")

(* The step of the behaviour is a load_serialize.                          *)
LoadStep == Len(log') = Len(log) + 1 /\ log'[Len(log')].ev = "load"

(* C10: after save_serialize, changes of the parameters and of the         *)
(* generator, and load_serialize, the parameters and the generator are     *)
(* those of the time of the save; load_serialize leaves the configuration  *)
(* alone; and from the same configuration every further sequence of steps  *)
(* gives the configuration and the generator that an engine never saved    *)
(* and reloaded reaches.                                                   *)
C10_RoundTrip ==
  /\ [](Loaded => simulation_parameters = saved.parameters)
  /\ [](Loaded /\ log[Len(log)].ev \in {"load", "restore"} => rng = saved.rng)
  /\ [](Restored => [config |-> configuration_space, rng |-> rng] = twin_run(twin_start, saved.rng, StepsSinceRestore))
  /\ [][LoadStep => configuration_space' = configuration_space]_vars

(* Parameters of more than one digit were saved after the generator had    *)
(* advanced, both were changed before the load, and the reloaded engine    *)
(* has moved the configuration in two steps.                               *)
C10_Witness ==
  /\ Restored
  /\ pc = "ser_restored"
  /\ StepsSinceRestore >= 2
  /\ configuration_space # twin_start
  /\ saved.rng # 0
  /\ saved.parameters.measurement_number >= 100
  /\ saved.parameters.relaxation_steps >= 10
  /\ PositionOf("set") > PositionOf("save")
  /\ PositionOf("load") - PositionOf("save") >= 3

----------------------------------------------------------------------------
(* The binned Histogram.                                                   *)

MaxOps == 3

RawXs == {-2, -1, 1, 2}
PairYs == {2}
InsertYs == {0, 2}
Widths == {1, 2}
References == {0, 1}
Binnings == [width : Widths, reference : References]

(* BinningNumber::operator(): the lower edge of the bin of x.              *)
binning_apply(b, x) == b.reference + b.width * ((x - b.reference) \div b.width)

(* std::map: m[k] of a key that may be absent, and m with m[k] set.        *)
MapAt(f, k) == IF k \in DOMAIN f THEN f[k] ELSE 0
MapPut(f, k, v) == [j \in DOMAIN f \cup {k} |-> IF j = k THEN v ELSE f[j]]

(* HistoBase::min_y, mean_y and flatness = min_y / mean_y, over the bins   *)
(* with non-zero incidence.                                                *)
NonZeroKeys(f) == {k \in DOMAIN f : f[k] # 0}

RECURSIVE SumOver(_, _)
SumOver(f, K) == IF K = {} THEN 0 ELSE LET k == CHOOSE j \in K : TRUE IN f[k] + SumOver(f, K \ {k})

min_y(f) == IF NonZeroKeys(f) = {} THEN 0 ELSE CHOOSE v \in {f[k] : k \in NonZeroKeys(f)} : \A k \in NonZeroKeys(f) : v <= f[k]
mean_y(f) == DDiv(DInt(SumOver(f, NonZeroKeys(f))), DInt(Cardinality(NonZeroKeys(f))))
flatness(f) == CHOOSE q \in {DDiv(DInt(lo), mean) : lo \in {min_y(f)}, mean \in {mean_y(f)}} : TRUE

(* An engine that is not running, for the behaviours of a histogram.       *)
IdleEngine ==
  /\ simulation_parameters = [relaxation_steps |-> 0, measurement_number |-> 0, steps_between_measurement |-> 0]
  /\ configuration_space = 0
  /\ rng = 0
  /\ is_terminating = FALSE
  /\ signal_caught = FALSE
  /\ api = "none"
  /\ betas = << >>
  /\ beta = 0
  /\ beta_iterator = 1
  /\ measurement_accumulator_iterator = 1
  /\ accumulators = << >>
  /\ internal_vector = << >>
  /\ results = << >>
  /\ retval = NoReturn
  /\ InitControl
  /\ NoAutocorrelation
  /\ seed = 0
  /\ archive = << >>
  /\ saved = NoSaved
  /\ twin_start = 0

InitHist ==
  /\ IdleEngine
  /\ pc = "histogram"
  /\ NoWangLandau
  /\ values = << >>
  /\ binning \in Binnings
  /\ ops = << >>

HistFrame == UNCHANGED <<engineVars, callVars, controlVars, historyVars, autoVars, serVars, wlVars>>

(* The history keeps the last two operations, each with its number.        *)
OpCount == IF ops = << >> THEN 0 ELSE ops[Len(ops)].n
LastTwo(h) == IF Len(h) <= 2 THEN h ELSE SubSeq(h, Len(h) - 1, Len(h))
Called(kind, x, y) == ops' = LastTwo(Append(ops, [kind |-> kind, x |-> x, y |-> y, n |-> OpCount + 1]))

(* operator<< that hands the raw value to the map.                         *)
histogram_shift_raw(x) ==
  /\ pc = "histogram"
  /\ OpCount < MaxOps
  /\ values' = MapPut(values, x, MapAt(values, x) + 1)
  /\ Called("shift", x, 1)
  /\ UNCHANGED binning
  /\ HistFrame

(* void operator<< (const x_value_type & bin)                              *)
histogram_shift(x) ==
  /\ pc = "histogram"
  /\ OpCount < MaxOps
  /\ values' = MapPut(values, binning_apply(binning, x), MapAt(values, binning_apply(binning, x)) + 1)
  /\ Called("shift", x, 1)
  /\ UNCHANGED binning
  /\ HistFrame

(* void operator<< (const value_type & xy_pair)                            *)
histogram_shift_pair(x, y) ==
  /\ pc = "histogram"
  /\ OpCount < MaxOps
  /\ values' = MapPut(values, binning_apply(binning, x), MapAt(values, binning_apply(binning, x)) + y)
  /\ Called("shift_pair", x, y)
  /\ UNCHANGED binning
  /\ HistFrame

(* operator[] whose new entry starts at 1.                                 *)
histogram_index_one(x) ==
  /\ pc = "histogram"
  /\ OpCount < MaxOps
  /\ values' = IF binning_apply(binning, x) \in DOMAIN values THEN values ELSE MapPut(values, binning_apply(binning, x), 1)
  /\ Called("index", x, 0)
  /\ UNCHANGED binning
  /\ HistFrame

(* y_value_type& operator[] (const x_value_type & bin): a lookup, which    *)
(* creates the entry if the key is absent.                                 *)
histogram_index(x) ==
  /\ pc = "histogram"
  /\ OpCount < MaxOps
  /\ values' = MapPut(values, binning_apply(binning, x), MapAt(values, binning_apply(binning, x)))
  /\ Called("index", x, 0)
  /\ UNCHANGED binning
  /\ HistFrame

(* insert that hands the raw key to the map.                               *)
histogram_insert_raw(x, y) ==
  /\ pc = "histogram"
  /\ OpCount < MaxOps
  /\ values' = IF x \in DOMAIN values THEN values ELSE MapPut(values, x, y)
  /\ Called("insert", x, y)
  /\ UNCHANGED binning
  /\ HistFrame

(* std::pair<iterator, bool> insert(const value_type& x): std::map::insert *)
(* keeps an entry that is already there.                                   *)
histogram_insert(x, y) ==
  /\ pc = "histogram"
  /\ OpCount < MaxOps
  /\ values' = IF binning_apply(binning, x) \in DOMAIN values THEN values ELSE MapPut(values, binning_apply(binning, x), y)
  /\ Called("insert", x, y)
  /\ UNCHANGED binning
  /\ HistFrame

(* void set_binning(BinningFunctor value)                                  *)
set_binning(b) ==
  /\ pc = "histogram"
  /\ OpCount < MaxOps
  /\ binning' = b
  /\ Called("set_binning", b.width, b.reference)
  /\ UNCHANGED values
  /\ HistFrame

(* void set_binning_width(x_value_type value)                              *)
set_binning_width(w) ==
  /\ pc = "histogram"
  /\ OpCount < MaxOps
  /\ binning' = [binning EXCEPT !.width = w]
  /\ Called("set_binning_width", w, 0)
  /\ UNCHANGED values
  /\ HistFrame

(* void set_binning_reference(x_value_type value)                          *)
set_binning_reference(r) ==
  /\ pc = "histogram"
  /\ OpCount < MaxOps
  /\ binning' = [binning EXCEPT !.reference = r]
  /\ Called("set_binning_reference", r, 0)
  /\ UNCHANGED values
  /\ HistFrame

(* HistoBase::set_all_y_values(0): every entry keeps its key.              *)
set_all_y_values_zero ==
  /\ pc = "histogram"
  /\ OpCount < MaxOps
  /\ values' = [k \in DOMAIN values |-> 0]
  /\ Called("reset", 0, 0)
  /\ UNCHANGED binning
  /\ HistFrame

NextHist ==
  \/ \E x \in RawXs : histogram_shift(x)
  \/ \E x \in RawXs, y \in PairYs : histogram_shift_pair(x, y)
  \/ \E x \in RawXs : histogram_index(x)
  \/ \E x \in RawXs, y \in InsertYs : histogram_insert(x, y)
  \/ \E b \in Binnings : set_binning(b)
  \/ \E w \in Widths : set_binning_width(w)
  \/ \E r \in References : set_binning_reference(r)
  \/ set_all_y_values_zero

SpecHist == InitHist /\ [][NextHist]_vars

----------------------------------------------------------------------------
(* floor(a / w) for w > 0, by its defining inequalities.                   *)
FloorOf(a, w) == CHOOSE q \in (0 - Abs(a)) - 1 .. Abs(a) : q * w <= a /\ a < (q + 1) * w

(* phi(x) = r + w * floor((x - r) / w) for the binning in force.           *)
Phi(x) == binning.reference + binning.width * FloorOf(x - binning.reference, binning.width)

LastOp == ops[Len(ops)]
AddressingOps == {"shift", "shift_pair", "index", "insert"}

(* What an operation on key k makes of the entry.                          *)
EntryAfter(op, k) ==
  CASE op.kind = "shift" -> MapAt(values, k) + 1
    [] op.kind = "shift_pair" -> MapAt(values, k) + op.y
    [] op.kind = "index" -> MapAt(values, k)
    [] op.kind = "insert" -> IF k \in DOMAIN values THEN values[k] ELSE op.y

(* The step is an operation that addresses an entry by a raw value.        *)
AddressingStep == ops' # ops /\ ops'[Len(ops')].kind \in AddressingOps

TwoShiftsOnEmpty ==
  /\ OpCount = 2
  /\ ops[1].kind = "shift"
  /\ ops[2].kind = "shift"

(* C11: operator<<(x), operator[](x) and insert((x, y)) act on the entry   *)
(* whose key is phi(x) = r + w * floor((x - r) / w) and on no other entry: *)
(* raw values of one bin share one entry, raw values of different bins     *)
(* never do; two << of values of one bin on an empty histogram leave one   *)
(* key with count 2.                                                       *)
C11_OneEntryPerBin ==
  /\ [][AddressingStep =>
          LET op == ops'[Len(ops')]
              k == Phi(op.x)
          IN /\ DOMAIN values' = DOMAIN values \cup {k}
             /\ values'[k] = EntryAfter(op, k)
             /\ \A j \in DOMAIN values \ {k} : values'[j] = values[j]]_vars
  /\ [](TwoShiftsOnEmpty =>
          IF Phi(ops[1].x) = Phi(ops[2].x)
          THEN DOMAIN values = {Phi(ops[1].x)} /\ values[Phi(ops[1].x)] = 2
          ELSE DOMAIN values = {Phi(ops[1].x), Phi(ops[2].x)} /\ values[Phi(ops[1].x)] = 1 /\ values[Phi(ops[2].x)] = 1)

(* The last two of three operations were a << and an insert of different  *)
(* raw values of one bin of width 2, and the histogram holds one key.      *)
C11_Witness ==
  /\ OpCount = 3
  /\ ops[1].kind = "shift"
  /\ ops[2].kind = "insert"
  /\ ops[1].x # ops[2].x
  /\ ops[2].x # Phi(ops[2].x)
  /\ Phi(ops[1].x) = Phi(ops[2].x)
  /\ binning.width = 2
  /\ binning.reference = 1
  /\ Cardinality(DOMAIN values) = 1

----------------------------------------------------------------------------
(* Every stored key is a fixed point of the binning in force.              *)
AllFixed == \A k \in DOMAIN values : Phi(k) = k

(* C17 as stated: after any sequence of operator<<, operator[], insert,    *)
(* set_binning, set_binning_width and set_binning_reference every stored   *)
(* key is a fixed point of the current binning functor.                    *)
C17_KeysAreFixedPoints == AllFixed

(* C17: operator<<, operator[] and insert store only keys that are fixed   *)
(* points of the binning in force and keep a histogram whose keys all are; *)
(* the setters of the binning leave the stored keys as they are.           *)
C17_FixedPointsKept ==
  /\ [][AddressingStep => /\ \A k \in DOMAIN values' \ DOMAIN values : Phi(k) = k
                          /\ AllFixed => AllFixed']_vars
  /\ [][ops' # ops /\ ops'[Len(ops')].kind \in {"set_binning", "set_binning_width", "set_binning_reference"} => values' = values]_vars

(* Raw values that are not keys were stored under width 2, in two bins.    *)
C17_Witness ==
  /\ OpCount = 3
  /\ \A j \in 1 .. 2 : ops[j].kind \in {"shift", "insert"} /\ Phi(ops[j].x) # ops[j].x
  /\ binning.width = 2
  /\ Cardinality(DOMAIN values) = 2
  /\ AllFixed

----------------------------------------------------------------------------
(* The step adds keys, all with value 0, and changes no entry.             *)
ZeroKeysAdded ==
  /\ DOMAIN values' # DOMAIN values
  /\ DOMAIN values \subseteq DOMAIN values'
  /\ \A k \in DOMAIN values' : values'[k] = MapAt(values, k)

SameStatistics ==
  /\ min_y(values') = min_y(values)
  /\ mean_y(values') = mean_y(values)
  /\ flatness(values') = flatness(values)

(* C16: min_y, mean_y and flatness are taken over the bins with non-zero   *)
(* incidence: a lookup with operator[], and any step that adds keys of     *)
(* value 0, changes none of them; and a histogram whose non-zero bins are  *)
(* equal has flatness 1 whatever keys of value 0 it holds (such as those   *)
(* kept by a reset), so the criterion can be met.                          *)
C16_ZeroBinsIgnored ==
  /\ [][ops' # ops /\ ops'[Len(ops')].kind = "index" => SameStatistics]_vars
  /\ [][ZeroKeysAdded => SameStatistics]_vars
  /\ [](NonZeroKeys(values) # {} /\ (\A j, k \in NonZeroKeys(values) : values[j] = values[k]) => flatness(values) = DInt(1))

(* A lookup has just created a key of value 0 in a histogram with two      *)
(* non-zero bins of counts 1 and 2, whose flatness is 2/3.                 *)
C16_Witness ==
  /\ OpCount = 3
  /\ LastOp.kind = "index"
  /\ values[Phi(LastOp.x)] = 0
  /\ Cardinality(NonZeroKeys(values)) = 2
  /\ flatness(values) = DFin(2, 3)

(* After a reset one bin was counted again; the other key is kept at 0.    *)
C16_Witness_Reset ==
  /\ OpCount = 3
  /\ ops[1].kind = "reset"
  /\ ops[2].kind = "shift"
  /\ Cardinality(DOMAIN values) = 2
  /\ Cardinality(NonZeroKeys(values)) = 1
  /\ flatness(values) = DInt(1)

----------------------------------------------------------------------------
(* The Wang-Landau engine.                                                 *)

MaxStageBatches == 2

SweepSteps == {1, 3}

(* Comparison of finite doubles; a comparison with NaN is false.           *)
DLess(a, b) == a.k = "fin" /\ b.k = "fin" /\ a.n * b.d < b.n * a.d
DLeq(a, b) == a.k = "fin" /\ b.k = "fin" /\ a.n * b.d <= b.n * a.d

RECURSIVE DPow(_, _)
DPow(a, n) == IF n = 0 THEN DInt(1) ELSE DMul(a, DPow(a, n - 1))

Multiplier == DFin(1, 2)

(* The final factors of the runs: one and two refinements away from the    *)
(* initial factor 1.                                                       *)
FinalFactors == {DPow(Multiplier, 1), DPow(Multiplier, 2)}

WangLandauParameters ==
  [modification_factor_initial : {DInt(1)},
   modification_factor_final : FinalFactors,
   modification_factor_multiplier : {Multiplier},
   flatness : {DFin(2, 3), DInt(1)},
   sweep_steps : SweepSteps]

(* S[E] of an energy that may be unseen: 0 implicitly.                     *)
log_density(S, E) == IF E \in DOMAIN S THEN S[E] ELSE DInt(0)

(* Accept iff u < q * exp(S[E_cur] - S[E_new]).                            *)
wang_landau_accept(S, E_cur, E_new, lnq, u) ==
  \/ u.zero
  \/ DLess(DInt(u.ln), DAdd(DInt(lnq), DSub(log_density(S, E_cur), log_density(S, E_new))))

(* A single step that updates S and H only when the step was accepted.     *)
wang_landau_iteration_accepted_only(cfg, g, S, H, ln_f, E_cur, rawStep, rawAccept) ==
  LET next_step == propose_step(cfg, rawStep)
      g1 == rng_advance(g)
  IN IF is_executable(next_step)
     THEN LET E_new == E_cur + delta_E(next_step)
              u == random_double(rawAccept)
              acc == wang_landau_accept(S, E_cur, E_new, next_step.lnq, u)
              E_after == IF acc THEN E_new ELSE E_cur
          IN [config |-> IF acc THEN execute(cfg, next_step) ELSE cfg,
              rng |-> rng_advance(g1),
              E_cur |-> E_after,
              S |-> IF acc THEN MapPut(S, E_after, DAdd(log_density(S, E_after), ln_f)) ELSE S,
              H |-> IF acc THEN MapPut(H, E_after, MapAt(H, E_after) + 1) ELSE H,
              executable |-> TRUE, accepted |-> acc]
     ELSE [config |-> cfg, rng |-> g1, E_cur |-> E_cur, S |-> S, H |-> H, executable |-> FALSE, accepted |-> FALSE]

(* A single step at modification factor ln_f: propose; skip a step that is *)
(* not executable; accept or reject; then, accepted or not, S[E_cur] +=    *)
(* ln_f and H[E_cur] += 1.                                                 *)
wang_landau_iteration(cfg, g, S, H, ln_f, E_cur, rawStep, rawAccept) ==
  LET next_step == propose_step(cfg, rawStep)
      g1 == rng_advance(g)
  IN IF is_executable(next_step)
     THEN LET E_new == E_cur + delta_E(next_step)
              u == random_double(rawAccept)
              acc == wang_landau_accept(S, E_cur, E_new, next_step.lnq, u)
              E_after == IF acc THEN E_new ELSE E_cur
          IN [config |-> IF acc THEN execute(cfg, next_step) ELSE cfg,
              rng |-> rng_advance(g1),
              E_cur |-> E_after,
              S |-> MapPut(S, E_after, DAdd(log_density(S, E_after), ln_f)),
              H |-> MapPut(H, E_after, MapAt(H, E_after) + 1),
              executable |-> TRUE, accepted |-> acc]
     ELSE [config |-> cfg, rng |-> g1, E_cur |-> E_cur, S |-> S, H |-> H, executable |-> FALSE, accepted |-> FALSE]

InitWL ==
  /\ simulation_parameters = [relaxation_steps |-> 0, measurement_number |-> 0, steps_between_measurement |-> 0]
  /\ InitEngine
  /\ api = "wang_landau"
  /\ betas = << >>
  /\ beta = 0
  /\ beta_iterator = 1
  /\ measurement_accumulator_iterator = 1
  /\ accumulators = << >>
  /\ internal_vector = << >>
  /\ results = << >>
  /\ retval = NoReturn
  /\ pc = "wl_entry"
  /\ InitControl
  /\ NoAutocorrelation
  /\ seed = 0
  /\ archive = << >>
  /\ saved = NoSaved
  /\ twin_start = 0
  /\ NoHistogram
  /\ wl_parameters \in WangLandauParameters
  /\ density_of_states = << >>
  /\ incidence_counter = << >>
  /\ modification_factor_current = wl_parameters.modification_factor_initial
  /\ energy_cur = observe(configuration_space)
  /\ stage_steps = [iterations |-> 0, executable |-> 0]
  /\ stage_batches = 0
  /\ refinements = 0
  /\ last_check = NoCheck
  /\ visited = {}

WLFrame == UNCHANGED <<simulation_parameters, signal_caught, callVars, ret, m, calls, propose_calls, signal_at, log, autoVars, serVars, histVars, wl_parameters>>

(* do_wang_landau_simulation is called.                                    *)
do_wang_landau_simulation_entry ==
  /\ pc = "wl_entry"
  /\ pc' = "wl_while"
  /\ UNCHANGED <<configuration_space, rng, is_terminating, num_steps, i, iter>>
  /\ UNCHANGED <<density_of_states, incidence_counter, modification_factor_current, energy_cur, stage_steps, stage_batches, refinements, last_check, visited>>
  /\ WLFrame

(* The loop condition with ln_f >= modification_factor_final.              *)
wang_landau_while_inclusive ==
  /\ pc = "wl_while"
  /\ IF DLeq(wl_parameters.modification_factor_final, modification_factor_current) /\ ~is_terminating
     THEN /\ pc' = "wl_sweep"
          /\ num_steps' = wl_parameters.sweep_steps
          /\ i' = 0
     ELSE /\ pc' = "done"
          /\ UNCHANGED <<num_steps, i>>
  /\ UNCHANGED <<configuration_space, rng, is_terminating, iter>>
  /\ UNCHANGED <<density_of_states, incidence_counter, modification_factor_current, energy_cur, stage_steps, stage_batches, refinements, last_check, visited>>
  /\ WLFrame

(* while ln_f > modification_factor_final and not is_terminating           *)
wang_landau_while ==
  /\ pc = "wl_while"
  /\ IF DLess(wl_parameters.modification_factor_final, modification_factor_current) /\ ~is_terminating
     THEN /\ pc' = "wl_sweep"
          /\ num_steps' = wl_parameters.sweep_steps
          /\ i' = 0
     ELSE /\ pc' = "done"
          /\ UNCHANGED <<num_steps, i>>
  /\ UNCHANGED <<configuration_space, rng, is_terminating, iter>>
  /\ UNCHANGED <<density_of_states, incidence_counter, modification_factor_current, energy_cur, stage_steps, stage_batches, refinements, last_check, visited>>
  /\ WLFrame

(* One of the sweep_steps single steps of a batch.                         *)
wang_landau_step(rawStep, rawAccept) ==
  /\ pc = "wl_sweep"
  /\ i < num_steps
  /\ \E r \in {wang_landau_iteration(configuration_space, rng, density_of_states, incidence_counter, modification_factor_current, energy_cur, rawStep, rawAccept)} :
        /\ configuration_space' = r.config
        /\ rng' = r.rng
        /\ energy_cur' = r.E_cur
        /\ density_of_states' = r.S
        /\ incidence_counter' = r.H
        /\ stage_steps' = [iterations |-> stage_steps.iterations + 1, executable |-> stage_steps.executable + (IF r.executable THEN 1 ELSE 0)]
        /\ visited' = IF r.executable THEN visited \cup {r.E_cur} ELSE visited
        /\ iter' = [NoIteration EXCEPT !.executable = r.executable, !.proposes = 1, !.executes = IF r.accepted THEN 1 ELSE 0, !.before = configuration_space]
  /\ i' = i + 1
  /\ UNCHANGED <<pc, num_steps, is_terminating, modification_factor_current, stage_batches, refinements, last_check>>
  /\ WLFrame

(* The batch is complete: dispatch signal_handler_sweep, poll the POSIX    *)
(* signal.                                                                 *)
wang_landau_poll ==
  /\ pc = "wl_sweep"
  /\ ~(i < num_steps)
  /\ is_terminating' = check_for_posix_signal(signal_caught, is_terminating).is_terminating
  /\ stage_batches' = stage_batches + 1
  /\ pc' = "wl_check"
  /\ iter' = NoIteration
  /\ UNCHANGED <<configuration_space, rng, num_steps, i>>
  /\ UNCHANGED <<density_of_states, incidence_counter, modification_factor_current, energy_cur, stage_steps, refinements, last_check, visited>>
  /\ WLFrame

(* The flatness check with the comparison turned round.                    *)
wang_landau_flatness_check_inverted ==
  /\ pc = "wl_check"
  /\ last_check' = [ln_f |-> modification_factor_current, flatness |-> flatness(incidence_counter), batches |-> stage_batches, incidence |-> incidence_counter]
  /\ IF is_terminating
     THEN /\ pc' = "done"
          /\ UNCHANGED <<num_steps, i>>
     ELSE IF DLeq(flatness(incidence_counter), wl_parameters.flatness)
          THEN /\ pc' = "wl_refine"
               /\ UNCHANGED <<num_steps, i>>
          ELSE /\ stage_batches < MaxStageBatches
               /\ pc' = "wl_sweep"
               /\ num_steps' = wl_parameters.sweep_steps
               /\ i' = 0
  /\ UNCHANGED <<configuration_space, rng, is_terminating, iter>>
  /\ UNCHANGED <<density_of_states, incidence_counter, modification_factor_current, energy_cur, stage_steps, stage_batches, refinements, visited>>
  /\ WLFrame

(* The flatness check that ends a batch: the interrupt exit, or            *)
(* until H.flatness() >= flatness.                                         *)
wang_landau_flatness_check ==
  /\ pc = "wl_check"
  /\ last_check' = [ln_f |-> modification_factor_current, flatness |-> flatness(incidence_counter), batches |-> stage_batches, incidence |-> incidence_counter]
  /\ IF is_terminating
     THEN /\ pc' = "done"
          /\ UNCHANGED <<num_steps, i>>
     ELSE IF DLeq(wl_parameters.flatness, flatness(incidence_counter))
          THEN /\ pc' = "wl_refine"
               /\ UNCHANGED <<num_steps, i>>
          ELSE /\ stage_batches < MaxStageBatches
               /\ pc' = "wl_sweep"
               /\ num_steps' = wl_parameters.sweep_steps
               /\ i' = 0
  /\ UNCHANGED <<configuration_space, rng, is_terminating, iter>>
  /\ UNCHANGED <<density_of_states, incidence_counter, modification_factor_current, energy_cur, stage_steps, stage_batches, refinements, visited>>
  /\ WLFrame

(* A refinement that also resets S.                                        *)
wang_landau_refine_reset_dos ==
  /\ pc = "wl_refine"
  /\ modification_factor_current' = DMul(modification_factor_current, wl_parameters.modification_factor_multiplier)
  /\ incidence_counter' = [k \in DOMAIN incidence_counter |-> 0]
  /\ density_of_states' = [k \in DOMAIN density_of_states |-> DInt(0)]
  /\ refinements' = refinements + 1
  /\ stage_steps' = [iterations |-> 0, executable |-> 0]
  /\ stage_batches' = 0
  /\ pc' = "wl_while"
  /\ UNCHANGED <<configuration_space, rng, is_terminating, num_steps, i, iter>>
  /\ UNCHANGED <<energy_cur, last_check, visited>>
  /\ WLFrame

(* ln_f <- ln_f * modification_factor_multiplier; H <- 0.                  *)
wang_landau_refine ==
  /\ pc = "wl_refine"
  /\ modification_factor_current' = DMul(modification_factor_current, wl_parameters.modification_factor_multiplier)
  /\ incidence_counter' = [k \in DOMAIN incidence_counter |-> 0]
  /\ refinements' = refinements + 1
  /\ stage_steps' = [iterations |-> 0, executable |-> 0]
  /\ stage_batches' = 0
  /\ pc' = "wl_while"
  /\ UNCHANGED <<configuration_space, rng, is_terminating, num_steps, i, iter>>
  /\ UNCHANGED <<density_of_states, energy_cur, last_check, visited>>
  /\ WLFrame

(* A POSIX signal arrives while do_wang_landau_simulation is running.      *)
raise_signal_sweep ==
  /\ pc \in {"wl_while", "wl_sweep", "wl_check", "wl_refine"}
  /\ ~signal_caught
  /\ signal_caught' = TRUE
  /\ UNCHANGED <<simulation_parameters, configuration_space, rng, is_terminating, callVars, controlVars, historyVars, autoVars, serVars, wlVars, histVars>>

NextWL ==
  \/ do_wang_landau_simulation_entry
  \/ wang_landau_while
  \/ \E rawStep \in RawValues, rawAccept \in RawValues : wang_landau_step(rawStep, rawAccept)
  \/ wang_landau_poll
  \/ wang_landau_flatness_check
  \/ wang_landau_refine
  \/ raise_signal_sweep

SpecWL == InitWL /\ [][NextWL]_vars

(* The call is a loop that keeps running until it returns.                 *)
SpecWLFair == SpecWL /\ WF_vars(NextWL)

(* get_density_of_states(): a copy of S.                                   *)
get_density_of_states == density_of_states

----------------------------------------------------------------------------
StepTaken == pc = "wl_sweep" /\ i' = i + 1
RefineStep == refinements' # refinements

OtherEntriesKept(f, g, E) == DOMAIN g = DOMAIN f \cup {E} /\ \A k \in DOMAIN f \ {E} : g[k] = f[k]

(* C12: a single step with an executable proposal, accepted or rejected,   *)
(* adds ln_f to S at one key and 1 to H at one key, the energy of the      *)
(* configuration after the decision (changed if accepted, the old one if   *)
(* rejected); a step that is not executable changes neither; so the sum of *)
(* H is the number of executable steps since the last reset, and E_cur is  *)
(* always the energy of the configuration.                                 *)
C12_UpdateAtCurrentEnergy ==
  /\ [][StepTaken /\ iter'.executable =>
          LET E == observe(configuration_space')
          IN /\ density_of_states'[E] = DAdd(log_density(density_of_states, E), modification_factor_current)
             /\ incidence_counter'[E] = MapAt(incidence_counter, E) + 1
             /\ OtherEntriesKept(density_of_states, density_of_states', E)
             /\ OtherEntriesKept(incidence_counter, incidence_counter', E)
             /\ energy_cur' = E
             /\ IF iter'.executes = 1
                THEN energy_cur' # energy_cur /\ E # observe(configuration_space)
                ELSE energy_cur' = energy_cur /\ configuration_space' = configuration_space]_vars
  /\ [][StepTaken /\ ~iter'.executable => density_of_states' = density_of_states /\ incidence_counter' = incidence_counter]_vars
  /\ [](SumOver(incidence_counter, DOMAIN incidence_counter) = stage_steps.executable)
  /\ [](energy_cur = observe(configuration_space))

(* A rejected step has just counted the old energy again, after a          *)
(* refinement.                                                             *)
C12_Witness ==
  /\ pc = "wl_sweep"
  /\ iter.executable
  /\ iter.proposes = 1
  /\ iter.executes = 0
  /\ incidence_counter[energy_cur] >= 2
  /\ refinements >= 1

(* C13: a refinement happens only after a flatness check that found        *)
(* H.flatness() >= flatness, on the H that is reset, at the current ln_f,  *)
(* after at least one full batch of sweep_steps single steps.              *)
C13_RefineOnlyWhenFlat ==
  /\ [][RefineStep =>
          /\ pc = "wl_refine"
          /\ DLeq(wl_parameters.flatness, last_check.flatness)
          /\ last_check.flatness = flatness(incidence_counter)
          /\ last_check.incidence = incidence_counter
          /\ last_check.ln_f = modification_factor_current
          /\ last_check.batches >= 1
          /\ stage_steps.iterations = last_check.batches * wl_parameters.sweep_steps]_vars
  /\ [](pc = "wl_refine" => DLeq(wl_parameters.flatness, flatness(incidence_counter)) /\ stage_steps.iterations >= wl_parameters.sweep_steps)

(* A second refinement is due after a sweep phase of several batches over  *)
(* two energies.                                                           *)
C13_Witness ==
  /\ pc = "wl_refine"
  /\ refinements = 1
  /\ last_check.batches >= 2
  /\ Cardinality(NonZeroKeys(incidence_counter)) = 2

(* C14: a refinement multiplies ln_f by modification_factor_multiplier,    *)
(* sets every value of H to 0 and leaves S as it is; no step of the run    *)
(* removes a key of S or lowers its value; so the density of states        *)
(* returned after the run holds every energy the walk counted.             *)
C14_RefinementFrame ==
  /\ [][RefineStep =>
          /\ modification_factor_current' = DMul(modification_factor_current, wl_parameters.modification_factor_multiplier)
          /\ DOMAIN incidence_counter' = DOMAIN incidence_counter
          /\ \A k \in DOMAIN incidence_counter' : incidence_counter'[k] = 0
          /\ density_of_states' = density_of_states]_vars
  /\ [][\A k \in DOMAIN density_of_states : k \in DOMAIN density_of_states' /\ DLeq(density_of_states[k], density_of_states'[k])]_vars
  /\ [](pc = "done" => \A E \in visited : E \in DOMAIN get_density_of_states /\ DLess(DInt(0), get_density_of_states[E]))

(* The run ended by ln_f after its refinements, having counted both        *)
(* energies.                                                               *)
C14_Witness ==
  /\ pc = "done"
  /\ ~is_terminating
  /\ refinements = 2
  /\ visited = Levels
  /\ \A k \in DOMAIN incidence_counter : incidence_counter[k] = 0

(* The refinements a run needs: the least n with                           *)
(* initial * multiplier^n <= final.                                        *)
RefinementsNeeded ==
  LET reached(n) == DLeq(DMul(wl_parameters.modification_factor_initial, DPow(wl_parameters.modification_factor_multiplier, n)), wl_parameters.modification_factor_final)
  IN CHOOSE n \in 0 .. Cardinality(FinalFactors) : reached(n) /\ \A j \in 0 .. n - 1 : ~reached(j)

(* A sweep phase that did not reach the flatness within the batches of the *)
(* model.                                                                  *)
StageCapped ==
  /\ pc = "wl_check"
  /\ stage_batches >= MaxStageBatches
  /\ ~is_terminating
  /\ ~DLeq(wl_parameters.flatness, flatness(incidence_counter))

(* C15: the run ends only with ln_f <= modification_factor_final or with   *)
(* is_terminating set, and then S is intact; ln_f never grows and every    *)
(* refinement lowers it, so there are at most the needed refinements; once *)
(* is_terminating is set there is no further refinement and the next       *)
(* flatness check ends the run; and a run whose sweep phases all reach the *)
(* flatness ends.                                                          *)
C15_Termination ==
  /\ [](pc = "done" => DLeq(modification_factor_current, wl_parameters.modification_factor_final) \/ is_terminating)
  /\ [][DLeq(modification_factor_current', modification_factor_current)]_vars
  /\ [][RefineStep => DLess(modification_factor_current', modification_factor_current)]_vars
  /\ [](refinements <= RefinementsNeeded)
  /\ [][is_terminating => ~RefineStep]_vars
  /\ [][pc = "wl_check" /\ is_terminating => pc' = "done" /\ density_of_states' = density_of_states]_vars
  /\ <>(pc = "done" \/ StageCapped)

(* The run was interrupted after a refinement, before ln_f reached the     *)
(* final value, with S holding what was counted.                           *)
C15_Witness ==
  /\ pc = "done"
  /\ is_terminating
  /\ refinements = 1
  /\ DLess(wl_parameters.modification_factor_final, modification_factor_current)
  /\ visited # {}
  /\ visited \subseteq DOMAIN density_of_states

----------------------------------------------------------------------------
(* The Metropolis entry points under a POSIX signal that may arrive at any *)
(* time: do_metropolis_simulation in its three overloads,                  *)
(* autocorrelation_function and integrated_autocorrelation_time.           *)

ShortTimes == {0, 1}

InitPoll ==
  \/ Init
  \/ /\ InitAuto
     /\ maximal_time \in ShortTimes
     /\ simulation_time_factor \in ShortTimes
     /\ ~sample_seeds_sum

NextPoll ==
  \/ Next
  \/ autocorrelation_function_entry
  \/ autocorrelation_sampling_loop
  \/ autocorrelation_observe
  \/ autocorrelation_measured_mean
  \/ autocorrelation_time_loop
  \/ autocorrelation_function_return

SpecPoll == InitPoll /\ [][NextPoll]_vars

Polls(s) == OfKind(s, "poll")

(* C18: the signal is polled, and is_terminating set, only in the step     *)
(* that directly follows an accumulation of the same call: never inside    *)
(* do_metropolis_steps (relaxation or the steps between measurements) and  *)
(* never in autocorrelation_function.  So a call in which a poll reported  *)
(* a signal has delivered at least one sample to its accumulator, and a    *)
(* call with measurement_number = 0 never polls and never sets             *)
(* is_terminating, whatever signal arrives.                                *)
C18_PollOnlyAfterAccumulation ==
  /\ [][is_terminating' # is_terminating \/ Polls(log') # Polls(log) =>
          /\ pc = "poll"
          /\ log # << >>
          /\ log[Len(log)].ev = "acc"
          /\ log[Len(log)].call = calls]_vars
  /\ [](\A k \in 1 .. Len(log) : log[k].ev = "poll" => k > 1 /\ log[k - 1].ev = "acc" /\ log[k - 1].call = log[k].call)
  /\ [](api \in AutoApis => ~is_terminating /\ Polls(log) = << >>)
  /\ [](api \in Apis /\ Reported(log) # << >> => CurrentAccumulator # << >> /\ AccValues(CallEvents(calls)) # << >>)
  /\ [](api \in Apis /\ simulation_parameters.measurement_number = 0 => ~is_terminating /\ Polls(log) = << >>)

(* A signal that arrived before the first accumulation of a single-beta    *)
(* call, after steps of that call, was seen only by the poll after the     *)
(* first accumulation.                                                     *)
C18_Witness ==
  /\ api = "single"
  /\ pc = "done"
  /\ simulation_parameters.relaxation_steps >= 1
  /\ simulation_parameters.measurement_number >= 2
  /\ signal_at.samples = 0
  /\ OfKind(CallEvents(signal_at.call), "step") # << >>
  /\ is_terminating
  /\ Len(accumulators[1]) = 1

(* A call without measurements ended with the signal caught and never      *)
(* polled.                                                                 *)
C18_Witness_NoMeasurement ==
  /\ api = "single"
  /\ pc = "done"
  /\ simulation_parameters.measurement_number = 0
  /\ simulation_parameters.relaxation_steps >= 1
  /\ signal_caught
  /\ ~is_terminating

(* autocorrelation_function returned with the signal caught and never      *)
(* polled.                                                                 *)
C18_Witness_Autocorrelation ==
  /\ api = "acf"
  /\ pc = "done"
  /\ results # << >>
  /\ signal_caught
  /\ ~is_terminating

============================================================================
